---------------------------- MODULE Spec2Model ----------------------------
(***************************************************************************)
(* Model of img2ascii.py: the ImageToASCII object (its Tk variables, the   *)
(* preview state) and its operations: image_to_ascii, the entry validation *)
(* handlers, set_aspect_ratio, set_crop_preset, the preview window.        *)
(*                                                                         *)
(* Numbers held by a Tk DoubleVar or passed as a Python number are kept in *)
(* thousandths (Milli), so that 0.001 is the integer 1.  The values the    *)
(* model draws are ones the float arithmetic of the code computes exactly  *)
(* (integers, halves, and 0.001 against small dimensions).                 *)
(***************************************************************************)
EXTENDS Integers, Sequences, FiniteSets, TLC

\* One unit of a Python number, in thousandths.
Milli == 1000

(***************************************************************************)
(* Python values.  t is the Python type: "None", "int", "float"; a Tk      *)
(* DoubleVar holds either a float or a text that does not parse ("text").  *)
(***************************************************************************)
NoneV == [t |-> "None", v |-> 0]
IntV(n) == [t |-> "int", v |-> n * Milli]
FloatV(m) == [t |-> "float", v |-> m]
BadText == [t |-> "text", v |-> 0]

Max2(a, b) == IF a >= b THEN a ELSE b
Min2(a, b) == IF a <= b THEN a ELSE b

\* Python's int(x) of the quotient n/d (d > 0): truncation toward zero.
PyInt(n, d) == IF n >= 0 THEN n \div d ELSE -((-n) \div d)

(***************************************************************************)
(* self.char_sets: each ramp is the sequence of its characters.  The block *)
(* and dot glyphs and the backquote are written by their code points.    *)
(***************************************************************************)
standard == <<" ", ".", ":", "-", "=", "+", "*", "#", "%", "@">>
detailed == <<" ", ".", "'", "U+0060", "^", "\"", ",", ":", ";", "I", "l", "!",
              "i", ">", "<", "~", "+", "_", "-", "?", "]", "[", "}", "{",
              "1", ")", "(", "|", "\\", "/", "t", "f", "j", "r", "x", "n",
              "u", "v", "c", "z", "X", "Y", "U", "J", "C", "L", "Q", "0",
              "O", "Z", "m", "w", "q", "p", "d", "b", "k", "h", "a", "o",
              "*", "#", "M", "W", "&", "8", "%", "B", "@", "$">>
simple == <<" ", ".", "#">>
blocks == <<" ", "U+2591", "U+2592", "U+2593", "U+2588">>
dots == <<" ", "U+00B7", "U+00B7", "U+25CF", "U+25CF">>

PresetNames == {"standard", "detailed", "simple", "blocks", "dots", "custom"}

\* A changed table: the custom preset is one character long.
char_sets_custom_short ==
  [name \in PresetNames |->
     CASE name = "standard" -> standard
       [] name = "detailed" -> detailed
       [] name = "simple" -> simple
       [] name = "blocks" -> blocks
       [] name = "dots" -> dots
       [] name = "custom" -> <<" ">>]

char_sets ==
  [name \in PresetNames |->
     CASE name = "standard" -> standard
       [] name = "detailed" -> detailed
       [] name = "simple" -> simple
       [] name = "blocks" -> blocks
       [] name = "dots" -> dots
       [] name = "custom" -> standard]

(***************************************************************************)
(* Files.  A path is a record: file is "None" (Python None), "empty" (""), *)
(* "missing" (no such file), "text" (a file that is no image), "solid" (an *)
(* image whose pixels all have luminance g) or "pattern" (an image whose   *)
(* luminance grows by step from pixel to pixel, modulo 256, starting at g). *)
(***************************************************************************)
Path(file, w, h, g, step) == [file |-> file, w |-> w, h |-> h, g |-> g, step |-> step]
NonePath == Path("None", 0, 0, 0, 0)
EmptyPath == Path("empty", 0, 0, 0, 0)
MissingPath == Path("missing", 0, 0, 0, 0)
TextPath == Path("text", 0, 0, 0, 0)

\* The largest luminance of mode 'L'.
MaxLum == 255

\* An image: width, height and the row-major pixel list of getdata().
Img(w, h, px) == [width |-> w, height |-> h, px |-> px]

\* Image.open(path).convert('L') of an image file.
OpenL(path) ==
  Img(path.w, path.h,
      [k \in 1..(path.w * path.h) |->
         IF path.file = "solid" THEN path.g
         ELSE (path.g + path.step * (k - 1)) % (MaxLum + 1)])

\* os.path.exists(image_path), for a path that is not None.
PathExists(path) == path.file \in {"text", "solid", "pattern"}

IsImage(path) == path.file \in {"solid", "pattern"}


(***************************************************************************)
(* The results of image_to_ascii.  kind "ascii": the art, text holding its *)
(* characters, "\n" included; "select": the text 'Please select a valid    *)
(* image file.'; "error": 'Error converting image: ' followed by cause;    *)
(* "raised": an exception that leaves image_to_ascii.                      *)
(***************************************************************************)
Ascii(text) == [kind |-> "ascii", cause |-> "", text |-> text]
SelectResult == [kind |-> "select", cause |-> "", text |-> <<>>]
ErrorResult(cause) == [kind |-> "error", cause |-> cause, text |-> <<>>]
Raised(cause) == [kind |-> "raised", cause |-> cause, text |-> <<>>]

\* A changed Resolve: the variable of the object, whatever was passed.
ResolveFromObject(arg, var) == var

\* An argument left None is read from the object's Tk variable.
Resolve(arg, var) == IF arg.t = "None" THEN var ELSE arg

(***************************************************************************)
(* Crop: percentages to pixel coordinates, then the clamps.                *)
(***************************************************************************)
CropStart(dim, percent) ==
  Max2(0, Min2(PyInt(dim * percent, 100 * Milli), dim - 1))

\* A changed CropEnd: the end is not kept beyond the start.
CropEndUnordered(dim, percent, start) ==
  Max2(0, Min2(PyInt(dim * percent, 100 * Milli), dim))

CropEnd(dim, percent, start) ==
  Max2(start + 1, Min2(PyInt(dim * percent, 100 * Milli), dim))

\* (start_x, start_y, end_x, end_y) for an image of the given size.
CropBox(width, height, sx, sy, ex, ey) ==
  LET start_x == CropStart(width, sx)
      start_y == CropStart(height, sy)
  IN  <<start_x, start_y, CropEnd(width, ex, start_x), CropEnd(height, ey, start_y)>>

\* The pixel at column x, row y (from 0); Pillow reads 0 outside the image.
At(image, x, y) ==
  IF 0 <= x /\ x < image.width /\ 0 <= y /\ y < image.height
  THEN image.px[y * image.width + x + 1]
  ELSE 0

\* image.crop(box)
Crop(image, box) ==
  LET w == box[3] - box[1]
      h == box[4] - box[2]
  IN  Img(w, h,
          [k \in 1..(w * h) |->
             LET x == box[1] + ((k - 1) % w)
                 y == box[2] + ((k - 1) \div w)
             IN  At(image, x, y)])

(***************************************************************************)
(* Brightness: img_array + brightness on a uint8 array, np.clip, and       *)
(* astype('uint8').  A float offset makes the sum a float64 array.  A      *)
(* Python int offset in 0..255 keeps the array uint8, whose sum wraps      *)
(* modulo 256; an int outside 0..255 widens the array under NumPy 1 and is *)
(* an OverflowError under NumPy 2.                                         *)
(***************************************************************************)
StaysUint8(b) == b.t = "int" /\ 0 <= b.v /\ b.v <= MaxLum * Milli

AddOverflows(b, numpy_version) == b.t = "int" /\ ~StaysUint8(b) /\ numpy_version = 2

Clip(x, lo, hi) == Max2(lo, Min2(x, hi))

AdjustPixel(g, b) ==
  IF StaysUint8(b)
  THEN Clip((g + b.v \div Milli) % (MaxLum + 1), 0, MaxLum)
  ELSE PyInt(Clip(g * Milli + b.v, 0, MaxLum * Milli), Milli)

Brighten(image, b) ==
  Img(image.width, image.height,
      [k \in 1..Len(image.px) |-> AdjustPixel(image.px[k], b)])

(***************************************************************************)
(* Resize: the target size, and image.resize.  A resize to the same size   *)
(* is a copy.  The Lanczos filter itself is Pillow's: it is modelled by    *)
(* the source pixel under each target pixel, which is what the filter      *)
(* gives for an image of one luminance.                                    *)
(***************************************************************************)
\* A changed NewDim: the scaled size rounded half up.
NewDimRounded(dim, scale) ==
  Max2(1, PyInt(2 * dim * scale + 100 * Milli, 200 * Milli))

\* A changed NewDim: no minimum of 1.
NewDimUnclamped(dim, scale) == PyInt(dim * scale, 100 * Milli)

NewDim(dim, scale) == Max2(1, PyInt(dim * scale, 100 * Milli))

Resize(image, new_width, new_height) ==
  IF new_width = image.width /\ new_height = image.height THEN image
  ELSE Img(new_width, new_height,
           [k \in 1..(new_width * new_height) |->
              LET x == (((k - 1) % new_width) * image.width) \div new_width
                  y == (((k - 1) \div new_width) * image.height) \div new_height
              IN  At(image, x, y)])

(***************************************************************************)
(* Quantization and assembly.                                              *)
(***************************************************************************)
\* A changed CharIndex: the luminance taken modulo the ramp length.
CharIndexModulo(gray_value, n) == gray_value % n

\* A changed CharIndex: the quotient rounded to the nearest index.
CharIndexNearest(gray_value, n) ==
  PyInt(2 * gray_value * (n - 1) + MaxLum, 2 * MaxLum)

CharIndex(gray_value, n) == PyInt(gray_value * (n - 1), MaxLum)

InvertIndex(char_index, n) == n - 1 - char_index

\* One pass of the pixel loop: char_index, the read of invert_colors while
\* invert is still None, the inversion.
PixelIndex(pixel, n, invert) ==
  LET char_index == CharIndex(pixel, n)
  IN  IF invert THEN InvertIndex(char_index, n) ELSE char_index

\* The local variable invert after the pass over one pixel.
InvertAfter(invert, invert_colors) ==
  IF invert = "None" THEN (IF invert_colors THEN "True" ELSE "False") ELSE invert

\* A changed test: made before invert_colors is read.
InvertRequestedEarly(invert, invert_colors) == invert = "True"

\* The test "if invert:" of one pass, made after the read of invert_colors.
InvertRequested(invert, invert_colors) ==
  InvertAfter(invert, invert_colors) = "True"

\* The indexes of the pixel list.  The loop carries the local invert: it is
\* as passed at the first pixel and as read from invert_colors after it.
IndexesFrom(pixels, n, invert, invert_colors) ==
  [k \in 1..Len(pixels) |->
     PixelIndex(pixels[k], n,
                InvertRequested(IF k = 1 THEN invert
                                ELSE InvertAfter(invert, invert_colors),
                                invert_colors))]

\* A changed join: a newline after every row, the last one too.
JoinRowsTrailing(chars, new_width) ==
  LET rows == (Len(chars) + new_width - 1) \div new_width
  IN  [k \in 1..(Len(chars) + rows) |->
         LET r == (k - 1) \div (new_width + 1)
             c == (k - 1) % (new_width + 1)
         IN  IF c = new_width THEN "\n" ELSE chars[r * new_width + c + 1]]

\* "\n".join(ascii_chars), the rows being the slices of new_width pixels.
JoinRows(chars, new_width) ==
  LET rows == IF new_width = 0 THEN 0 ELSE (Len(chars) + new_width - 1) \div new_width
      total == Len(chars) + (IF rows > 0 THEN rows - 1 ELSE 0)
  IN  [k \in 1..total |->
         LET r == (k - 1) \div (new_width + 1)
             c == (k - 1) % (new_width + 1)
         IN  IF c = new_width THEN "\n" ELSE chars[r * new_width + c + 1]]


(***************************************************************************)
(* image_to_ascii(self, image_path, width_scale, ..., crop_end_y).  self   *)
(* is the record of the object's Tk variables, a the record of the         *)
(* arguments, numpy_version the NumPy the program runs on.  The stages are *)
(* given as operators of (self, a) so that the properties can name them.   *)
(***************************************************************************)
Truth(arg, var) == IF arg = "None" THEN var ELSE arg = "True"

CropEnabled(self, a) == Truth(a.crop_enabled, self.crop_enabled)

CropArgs(self, a) ==
  <<Resolve(a.crop_start_x, self.crop_start_x), Resolve(a.crop_start_y, self.crop_start_y),
    Resolve(a.crop_end_x, self.crop_end_x), Resolve(a.crop_end_y, self.crop_end_y)>>

\* The crop box of the call, for the decoded image.
BoxOf(self, a) ==
  LET c == CropArgs(self, a)
  IN  CropBox(a.image_path.w, a.image_path.h, c[1].v, c[2].v, c[3].v, c[4].v)

\* The image after the crop stage.
Cropped(self, a) ==
  IF CropEnabled(self, a) THEN Crop(OpenL(a.image_path), BoxOf(self, a))
  ELSE OpenL(a.image_path)

BrightnessOf(self, a) == Resolve(a.brightness, self.brightness)

\* The image after the brightness stage.
Brightened(self, a) ==
  IF BrightnessOf(self, a).v # 0 THEN Brighten(Cropped(self, a), BrightnessOf(self, a))
  ELSE Cropped(self, a)

WidthScaleOf(self, a) == Resolve(a.width_scale, self.width_scale)
HeightScaleOf(self, a) == Resolve(a.height_scale, self.height_scale)

\* A changed NewWidth: the target width taken from the decoded image, not
\* from the cropped one.
NewWidthOfOriginal(self, a) == NewDim(a.image_path.w, WidthScaleOf(self, a).v)

NewWidth(self, a) == NewDim(Cropped(self, a).width, WidthScaleOf(self, a).v)
NewHeight(self, a) == NewDim(Cropped(self, a).height, HeightScaleOf(self, a).v)

\* The image after the resize stage: the sampled pixels.
Resized(self, a) == Resize(Brightened(self, a), NewWidth(self, a), NewHeight(self, a))

\* A changed RampOf: another ramp for a name that is no preset.
RampOfOtherDefault(self, a) ==
  IF a.char_set.t = "None" THEN char_sets[self.char_set]
  ELSE IF a.char_set.s \in DOMAIN char_sets THEN char_sets[a.char_set.s]
  ELSE char_sets["detailed"]

\* The ramp the character-set lines pick.
RampOf(self, a) ==
  IF a.char_set.t = "None" THEN char_sets[self.char_set]
  ELSE IF a.char_set.s \in DOMAIN char_sets THEN char_sets[a.char_set.s]
  ELSE char_sets["standard"]

\* The ramp index of every sampled pixel, row-major.
IndexesOf(self, a) ==
  IndexesFrom(Resized(self, a).px, Len(RampOf(self, a)), a.invert, self.invert_colors)

AsciiOf(self, a) ==
  LET idx == IndexesOf(self, a)
      ramp == RampOf(self, a)
  IN  JoinRows([k \in 1..Len(idx) |-> ramp[idx[k] + 1]], NewWidth(self, a))

\* A Tk variable whose text is no number makes get() raise TclError.
CropUnreadable(self, a) ==
  CropEnabled(self, a) /\ \E i \in 1..4 : CropArgs(self, a)[i].t = "text"

image_to_ascii(self, a, numpy_version) ==
  IF a.image_path.file = "None" THEN Raised("TypeError")
  ELSE IF ~PathExists(a.image_path) THEN SelectResult
  ELSE IF ~IsImage(a.image_path) THEN ErrorResult("UnidentifiedImageError")
  ELSE IF CropUnreadable(self, a) THEN ErrorResult("TclError")
  ELSE IF BrightnessOf(self, a).t = "text" THEN ErrorResult("TclError")
  ELSE IF BrightnessOf(self, a).v # 0 /\ AddOverflows(BrightnessOf(self, a), numpy_version)
       THEN ErrorResult("OverflowError")
  ELSE IF WidthScaleOf(self, a).t = "text" \/ HeightScaleOf(self, a).t = "text"
       THEN ErrorResult("TclError")
  ELSE IF a.char_set.t = "None" /\ self.char_set \notin DOMAIN char_sets
       THEN ErrorResult("KeyError")
  ELSE Ascii(AsciiOf(self, a))


(***************************************************************************)
(* The state: the Tk variables of the object, the preview, the entry that  *)
(* holds the keyboard focus, the last direct call of image_to_ascii with   *)
(* its result, and the NumPy of the build.  event names the last operation *)
(* and its outcome; good holds, for each numeric parameter, the last value *)
(* that passed its validation or that a control other than the entry set;  *)
(* first keeps the result of a call that is then made a second time;       *)
(* canvas is the last image ascii_to_image made, with what it was made of; *)
(* handed is the last text handed on, and where to.  preview_open says     *)
(* that some preview window exists; current_preview_window is the one      *)
(* opened last ("unset" before the first, "exists", or "destroyed"), and   *)
(* others counts the preview windows opened before it that still exist.    *)
(***************************************************************************)
VARIABLES image_path, width_scale, height_scale, char_set, invert_colors,
          brightness, crop_enabled, crop_start_x, crop_start_y, crop_end_x,
          crop_end_y, preview_open, current_ascii_art, focus, call, ret,
          numpy_version, event, good, handled, first, font_size,
          export_font_size, canvas, handed, current_preview_window, others

windows == <<current_preview_window, others>>
tkvars == <<image_path, width_scale, height_scale, char_set, invert_colors,
            brightness, crop_enabled, crop_start_x, crop_start_y, crop_end_x,
            crop_end_y>>
vars == <<tkvars, preview_open, current_ascii_art, focus, call, ret,
          numpy_version, event, good, handled, first, font_size, export_font_size, canvas, handed, windows>>

\* The object's variables as image_to_ascii reads them.
Self ==
  [image_path |-> image_path, width_scale |-> width_scale,
   height_scale |-> height_scale, char_set |-> char_set,
   invert_colors |-> invert_colors, brightness |-> brightness,
   crop_enabled |-> crop_enabled, crop_start_x |-> crop_start_x,
   crop_start_y |-> crop_start_y, crop_end_x |-> crop_end_x,
   crop_end_y |-> crop_end_y]

NoStr == [t |-> "None", s |-> ""]
Str(s) == [t |-> "str", s |-> s]

\* image_to_ascii(path) with every keyword argument left at None.
Args(path) ==
  [image_path |-> path, width_scale |-> NoneV, height_scale |-> NoneV,
   char_set |-> NoStr, invert |-> "None", brightness |-> NoneV,
   crop_enabled |-> "None", crop_start_x |-> NoneV, crop_start_y |-> NoneV,
   crop_end_x |-> NoneV, crop_end_y |-> NoneV]

\* No attribute current_ascii_art yet; no call made yet.
Unset == [kind |-> "unset", cause |-> "", text |-> <<>>]

\* The numeric parameters.
Params ==
  [width_scale |-> width_scale, height_scale |-> height_scale,
   brightness |-> brightness, crop_start_x |-> crop_start_x,
   crop_start_y |-> crop_start_y, crop_end_x |-> crop_end_x,
   crop_end_y |-> crop_end_y]

\* No image made by ascii_to_image yet.
NoCanvas == [made |-> FALSE]

\* Nothing handed on to the export dialog, the clipboard or a file yet.
NotHanded == [to |-> "nothing", art |-> Unset]

\* __init__
Init ==
  /\ image_path = EmptyPath
  /\ width_scale = FloatV(100 * Milli)
  /\ height_scale = FloatV(100 * Milli)
  /\ char_set = "standard"
  /\ invert_colors = FALSE
  /\ brightness = FloatV(0)
  /\ crop_enabled = FALSE
  /\ crop_start_x = FloatV(0)
  /\ crop_start_y = FloatV(0)
  /\ crop_end_x = FloatV(100 * Milli)
  /\ crop_end_y = FloatV(100 * Milli)
  /\ preview_open = FALSE
  /\ current_ascii_art = Unset
  /\ call = Args(EmptyPath)
  /\ ret = Unset
  /\ numpy_version \in {1, 2}
  /\ focus = "none"
  /\ event = "init"
  /\ good = Params
  /\ handled = 0
  /\ first = Unset
  /\ font_size = 6
  /\ export_font_size = 12
  /\ canvas = NoCanvas
  /\ handed = NotHanded
  /\ current_preview_window = "unset"
  /\ others = 0


(***************************************************************************)
(* Direct calls of image_to_ascii, and the sets their arguments are drawn  *)
(* from.                                                                   *)
(***************************************************************************)
\* Side of the square image of the luminance sweep: its pixels run through
\* every luminance 0, 1, 2, ... row by row.
SweepSide == 16

SweepImage == Path("pattern", SweepSide, SweepSide, 0, 1)

\* The 10x10 mid-gray image and the 100x100 source of the scenarios.
GrayImage == Path("solid", 10, 10, 128, 0)
LargeImage == Path("solid", 100, 100, 128, 0)
PatternImage == Path("pattern", 4, 3, 200, 37)
DotImage == Path("solid", 1, 1, 255, 0)
SmallImage == Path("solid", 5, 4, 60, 0)

Tri == {"None", "True", "False"}

\* Ramps named by the caller: the presets, and explicit character sequences
\* with their characters.
ExplicitChars ==
  [s \in {"ab", "@#"} |-> IF s = "ab" THEN <<"a", "b">> ELSE <<"@", "#">>]
CharSetArgs ==
  {NoStr} \cup {Str(n) : n \in PresetNames} \cup {Str(x) : x \in DOMAIN ExplicitChars}

BrightnessArgs ==
  {IntV(b) : b \in {-100, -50, 50, 100}}
    \cup {FloatV(b * Milli) : b \in {-100, -50, 50, 100}} \cup {FloatV(500), IntV(0)}

CropPercentArgs ==
  {FloatV(-20 * Milli), IntV(10), FloatV(90 * Milli), IntV(130)}

ScaleArgs ==
  {NoneV, FloatV(1), IntV(50), IntV(75), FloatV(100 * Milli), IntV(150)}

Call(a) ==
  /\ call' = a
  /\ ret' = image_to_ascii(Self, a, numpy_version)
  /\ event' = "image_to_ascii"
  /\ UNCHANGED <<tkvars, preview_open, current_ascii_art, focus, numpy_version, good, handled, first, font_size, export_font_size, canvas, handed, windows>>

CallQuantize ==
  /\ ret = Unset
  /\ \E cs \in CharSetArgs, inv \in Tri :
       Call([Args(SweepImage) EXCEPT !.char_set = cs, !.invert = inv])

CallBrightness ==
  /\ ret = Unset
  /\ \E b \in BrightnessArgs :
       Call([Args(SweepImage) EXCEPT !.brightness = b])

CallCrop ==
  /\ ret = Unset
  /\ \E img \in {SmallImage, PatternImage, DotImage},
        sx \in CropPercentArgs, sy \in CropPercentArgs,
        ex \in CropPercentArgs, ey \in CropPercentArgs :
       Call([Args(img) EXCEPT !.crop_enabled = "True", !.crop_start_x = sx,
                              !.crop_start_y = sy, !.crop_end_x = ex, !.crop_end_y = ey])

CallScale ==
  /\ ret = Unset
  /\ \E img \in {GrayImage, PatternImage, DotImage},
        ws \in ScaleArgs, hs \in ScaleArgs, ce \in Tri :
       Call([Args(img) EXCEPT !.width_scale = ws, !.height_scale = hs,
                              !.crop_enabled = ce, !.crop_start_x = IntV(25),
                              !.crop_start_y = IntV(25), !.crop_end_x = IntV(75),
                              !.crop_end_y = IntV(75)])

\* The scenarios: the 10x10 mid-gray image, plain, inverted and brightened.
CallScenario ==
  /\ ret = Unset
  /\ \E b \in {NoneV, IntV(100), FloatV(100 * Milli)}, inv \in Tri :
       Call([Args(GrayImage) EXCEPT !.brightness = b, !.invert = inv,
                                    !.char_set = Str("standard")])

\* The crop scenario: bounds (10,10,90,90) on the 100x100 source.
CallLarge ==
  /\ ret = Unset
  /\ \E ws \in {IntV(10), IntV(15)} :
       Call([Args(LargeImage) EXCEPT !.crop_enabled = "True", !.crop_start_x = IntV(10),
                                     !.crop_start_y = IntV(10), !.crop_end_x = IntV(90),
                                     !.crop_end_y = IntV(90), !.width_scale = ws,
                                     !.height_scale = IntV(10), !.brightness = IntV(0),
                                     !.invert = "False", !.char_set = Str("standard")])

CallNoImage ==
  /\ ret = Unset
  /\ \E path \in {NonePath, EmptyPath, MissingPath, TextPath}, cs \in CharSetArgs :
       Call([Args(path) EXCEPT !.char_set = cs])

\* Values set on the Tk variables between calls.
SetInvert ==
  /\ ret = Unset
  /\ invert_colors' = ~invert_colors
  /\ event' = "set"
  /\ UNCHANGED <<image_path, width_scale, height_scale, char_set, brightness,
                 crop_enabled, crop_start_x, crop_start_y, crop_end_x, crop_end_y,
                 preview_open, current_ascii_art, focus, call, ret, numpy_version, good, handled,
                 first, font_size, export_font_size, canvas, handed, windows>>

SetCharSet ==
  /\ ret = Unset
  /\ \E name \in {"standard", "dots", "neon"} : char_set' = name
  /\ event' = "set"
  /\ UNCHANGED <<image_path, width_scale, height_scale, invert_colors, brightness,
                 crop_enabled, crop_start_x, crop_start_y, crop_end_x, crop_end_y,
                 preview_open, current_ascii_art, focus, call, ret, numpy_version, good, handled,
                 first, font_size, export_font_size, canvas, handed, windows>>

SetBrightness ==
  /\ ret = Unset
  /\ \E b \in {0, 100 * Milli} : brightness' = FloatV(b)
  /\ event' = "set"
  /\ UNCHANGED <<image_path, width_scale, height_scale, char_set, invert_colors,
                 crop_enabled, crop_start_x, crop_start_y, crop_end_x, crop_end_y,
                 preview_open, current_ascii_art, focus, call, ret, numpy_version, good, handled,
                 first, font_size, export_font_size, canvas, handed, windows>>

\* One call is made on the object, after its variables have been set.
NextCall ==
  \/ CallQuantize
  \/ CallBrightness
  \/ CallCrop
  \/ CallScale
  \/ CallScenario
  \/ CallLarge
  \/ CallNoImage
  \/ SetInvert
  \/ SetCharSet
  \/ SetBrightness

SpecCall == Init /\ [][NextCall]_vars

\* The calls that sweep the luminances over the ramps, plain and inverted.
NextQuantize ==
  \/ CallQuantize
  \/ SetInvert
  \/ SetCharSet

SpecQuantize == Init /\ [][NextQuantize]_vars


(***************************************************************************)
(* The same call made twice, every parameter passed, with events of the    *)
(* windows between the two.  The first call is made on the new object:     *)
(* what two later states give is compared through what it gave.            *)
(***************************************************************************)
ExplicitArgs ==
  {[Args(img) EXCEPT !.width_scale = IntV(50), !.height_scale = IntV(100),
                     !.char_set = Str("simple"), !.invert = inv,
                     !.brightness = FloatV(50 * Milli), !.crop_enabled = ce,
                     !.crop_start_x = IntV(0), !.crop_start_y = IntV(0),
                     !.crop_end_x = IntV(50), !.crop_end_y = IntV(100)] :
     img \in {PatternImage}, inv \in {"True", "False"}, ce \in {"True", "False"}}
    \cup {[Args(TextPath) EXCEPT !.width_scale = IntV(50), !.height_scale = IntV(100),
                                !.char_set = Str("simple"), !.invert = "False",
                                !.brightness = IntV(0), !.crop_enabled = "False",
                                !.crop_start_x = IntV(0), !.crop_start_y = IntV(0),
                                !.crop_end_x = IntV(50), !.crop_end_y = IntV(100)]}

CallExplicit ==
  /\ ret = Unset /\ handled = 0
  /\ \E a \in ExplicitArgs :
       /\ call' = a
       /\ ret' = image_to_ascii(Self, a, numpy_version)
  /\ event' = "image_to_ascii"
  /\ UNCHANGED <<tkvars, preview_open, current_ascii_art, focus, numpy_version, good,
                 handled, first, font_size, export_font_size, canvas, handed, windows>>

\* A changed second call: it stores its result as the art of the preview.
CallAgainStoring ==
  /\ ret # Unset /\ first = Unset
  /\ first' = ret
  /\ ret' = image_to_ascii(Self, call, numpy_version)
  /\ current_ascii_art' = ret'
  /\ event' = "image_to_ascii again"
  /\ UNCHANGED <<tkvars, preview_open, focus, call, numpy_version, good, handled,
                 font_size, export_font_size, canvas, handed, windows>>

\* The second call, with the arguments of the first.
CallAgain ==
  /\ ret # Unset /\ first = Unset
  /\ first' = ret
  /\ ret' = image_to_ascii(Self, call, numpy_version)
  /\ event' = "image_to_ascii again"
  /\ UNCHANGED <<tkvars, preview_open, current_ascii_art, focus, call, numpy_version,
                 good, handled, font_size, export_font_size, canvas, handed, windows>>


(***************************************************************************)
(* The windows: what the user does to the main window and to the preview   *)
(* window, one action per widget event, with the handler the event is      *)
(* bound to run to its end.  An entry shows its Tk variable, so typing     *)
(* writes the typed text into the variable; the handler of the entry       *)
(* runs later, on Return or when the entry loses the focus, and an entry   *)
(* has to lose the focus before another entry can be typed into.           *)
(***************************************************************************)
\* What the file dialog returns (a cancelled dialog returns "" and
\* browse_image then changes nothing).
BrowseFiles == {PatternImage, TextPath}

\* Texts typed into the entries: not a number, a number inside the range of
\* the entry, and numbers outside it.
ScaleTexts == {BadText, FloatV(50 * Milli), FloatV(150 * Milli)}
BrightnessTexts == {BadText, FloatV(50 * Milli), FloatV(150 * Milli)}
CropTexts == {BadText, FloatV(50 * Milli), FloatV(120 * Milli)}
CropFields == {"crop_start_x", "crop_start_y", "crop_end_x", "crop_end_y"}
PreviewEntries == CropFields \cup {"brightness"}

\* Positions the sliders are dragged to.
ScaleSlides == {FloatV(1)}
BrightnessSlides == {FloatV(-100 * Milli), FloatV(0)}

\* Values set_aspect_ratio is asked for: those of two of the buttons, and
\* a pair outside 0.001..100 on both sides.
AspectRequests == {<<IntV(4), IntV(3)>>, <<IntV(150), FloatV(0)>>}

\* The ramps picked in the comboboxes.
RampChoices == {"standard", "simple"}

\* The crop preset buttons, as <<start_x, start_y, end_x, end_y>>.
CropPresets ==
  [center |-> <<25, 25, 75, 75>>, top |-> <<0, 0, 100, 50>>,
   bottom |-> <<0, 50, 100, 100>>, left |-> <<0, 0, 50, 100>>,
   right |-> <<50, 0, 100, 100>>, reset |-> <<0, 0, 100, 100>>]

crops == <<crop_start_x, crop_start_y, crop_end_x, crop_end_y>>
\* What the events of the windows leave alone.
settled == <<call, ret, numpy_version, first, font_size, export_font_size, canvas, handed>>
direct == <<settled, windows>>

\* float(var.get()) succeeds: the variable holds a number.
Parses(value) == value.t # "text"

\* A changed range of the scales: up to 1000.
ScaleInRangeWide(value) == Milli \div 1000 <= value.v /\ value.v <= 1000 * Milli
\* 0.001 <= value <= 100
ScaleInRange(value) == Milli \div 1000 <= value.v /\ value.v <= 100 * Milli

\* -100 <= value <= 100
BrightnessInRange(value) == -100 * Milli <= value.v /\ value.v <= 100 * Milli

\* 0 <= value <= 100
CropInRange(value) == 0 <= value.v /\ value.v <= 100 * Milli

\* max(0.001, min(100, value)), as the DoubleVar gives it back.
ClampScale(value) == FloatV(Max2(Milli \div 1000, Min2(100 * Milli, value.v)))

\* The events of a session that are followed: at most MaxEvents.
MaxEvents == 4

\* Events are followed up to the second of two calls that are compared.
Handle ==
  /\ first = Unset
  /\ handled < MaxEvents
  /\ handled' = handled + 1

\* A changed handler: the art is left as it is.
update_preview_skipped == UNCHANGED current_ascii_art

\* update_preview_from_controls: convert with the values the variables
\* hold now, and store the result.
update_preview_from_controls ==
  current_ascii_art' = image_to_ascii(Self', Args(image_path'), numpy_version)

browse_image ==
  /\ Handle
  /\ \E filename \in BrowseFiles : image_path' = filename
  /\ event' = "browse_image"
  /\ UNCHANGED <<width_scale, height_scale, char_set, invert_colors, brightness,
                 crop_enabled, crops, preview_open, current_ascii_art, focus,
                 direct, good>>

TypeWidth ==
  /\ Handle
  /\ focus \in {"none", "width_scale"}
  /\ \E text \in ScaleTexts : width_scale' = text
  /\ focus' = "width_scale"
  /\ event' = "type"
  /\ UNCHANGED <<image_path, height_scale, char_set, invert_colors, brightness,
                 crop_enabled, crops, preview_open, current_ascii_art, direct, good>>

TypeHeight ==
  /\ Handle
  /\ focus \in {"none", "height_scale"}
  /\ \E text \in ScaleTexts : height_scale' = text
  /\ focus' = "height_scale"
  /\ event' = "type"
  /\ UNCHANGED <<image_path, width_scale, char_set, invert_colors, brightness,
                 crop_enabled, crops, preview_open, current_ascii_art, direct, good>>

SlideWidth ==
  /\ Handle
  /\ \E position \in ScaleSlides : width_scale' = position
  /\ good' = [good EXCEPT !.width_scale = width_scale']
  /\ event' = "width_slider"
  /\ UNCHANGED <<image_path, height_scale, char_set, invert_colors, brightness,
                 crop_enabled, crops, preview_open, current_ascii_art, focus, direct>>

SlideHeight ==
  /\ Handle
  /\ \E position \in ScaleSlides : height_scale' = position
  /\ good' = [good EXCEPT !.height_scale = height_scale']
  /\ event' = "height_slider"
  /\ UNCHANGED <<image_path, width_scale, char_set, invert_colors, brightness,
                 crop_enabled, crops, preview_open, current_ascii_art, focus, direct>>

\* The handler leaves through the TclError of DoubleVar.get(), which its
\* except ValueError does not catch, when the entry holds no number.
on_width_entry_change ==
  /\ Handle
  /\ focus = "width_scale"
  /\ focus' = "none"
  /\ IF ~Parses(width_scale)
       THEN /\ event' = "on_width_entry_change: TclError"
            /\ UNCHANGED <<width_scale, good>>
       ELSE IF ScaleInRange(width_scale)
         THEN /\ event' = "on_width_entry_change: accepted"
              /\ good' = [good EXCEPT !.width_scale = width_scale]
              /\ UNCHANGED width_scale
         ELSE /\ event' = "on_width_entry_change: rejected"
              /\ width_scale' = FloatV(100 * Milli)
              /\ UNCHANGED good
  /\ UNCHANGED <<image_path, height_scale, char_set, invert_colors, brightness,
                 crop_enabled, crops, preview_open, current_ascii_art, direct>>

on_height_entry_change ==
  /\ Handle
  /\ focus = "height_scale"
  /\ focus' = "none"
  /\ IF ~Parses(height_scale)
       THEN /\ event' = "on_height_entry_change: TclError"
            /\ UNCHANGED <<height_scale, good>>
       ELSE IF ScaleInRange(height_scale)
         THEN /\ event' = "on_height_entry_change: accepted"
              /\ good' = [good EXCEPT !.height_scale = height_scale]
              /\ UNCHANGED height_scale
         ELSE /\ event' = "on_height_entry_change: rejected"
              /\ height_scale' = FloatV(100 * Milli)
              /\ UNCHANGED good
  /\ UNCHANGED <<image_path, width_scale, char_set, invert_colors, brightness,
                 crop_enabled, crops, preview_open, current_ascii_art, direct>>

\* set_aspect_ratio(width_value, height_value); call keeps what was asked.
set_aspect_ratio ==
  /\ Handle
  /\ \E request \in AspectRequests :
       /\ width_scale' = ClampScale(request[1])
       /\ height_scale' = ClampScale(request[2])
       /\ call' = [call EXCEPT !.width_scale = request[1], !.height_scale = request[2]]
  /\ good' = [good EXCEPT !.width_scale = width_scale', !.height_scale = height_scale']
  /\ event' = "set_aspect_ratio"
  /\ UNCHANGED <<image_path, char_set, invert_colors, brightness, crop_enabled,
                 crops, preview_open, current_ascii_art, focus, ret, numpy_version,
                 first, font_size, export_font_size, canvas, handed, windows>>

\* The combobox and the checkbutton of the main window: no handler.
SelectCharSet ==
  /\ Handle
  /\ \E name \in RampChoices : char_set' = name
  /\ event' = "main char_set"
  /\ UNCHANGED <<image_path, width_scale, height_scale, invert_colors, brightness,
                 crop_enabled, crops, preview_open, current_ascii_art, focus,
                 direct, good>>

ToggleInvert ==
  /\ Handle
  /\ invert_colors' = ~invert_colors
  /\ event' = "main invert_colors"
  /\ UNCHANGED <<image_path, width_scale, height_scale, char_set, brightness,
                 crop_enabled, crops, preview_open, current_ascii_art, focus,
                 direct, good>>

\* With no path chosen the handler shows an error and returns.
\* Preview windows followed at a time besides the one opened last.
MaxOthers == 1

\* Every press of the button makes a new window, which becomes
\* current_preview_window; the windows made before stay until closed.
open_preview_window ==
  /\ Handle
  /\ UNCHANGED <<tkvars, focus, settled, good>>
  /\ IF image_path = EmptyPath
       THEN /\ event' = "open_preview_window: no path"
            /\ UNCHANGED <<preview_open, current_ascii_art, windows>>
       ELSE /\ current_preview_window = "exists" => others < MaxOthers
            /\ current_ascii_art' = image_to_ascii(Self, Args(image_path), numpy_version)
            /\ preview_open' = TRUE
            /\ current_preview_window' = "exists"
            /\ others' = IF current_preview_window = "exists" THEN others + 1 ELSE others
            /\ event' = "open_preview_window"

\* The Close button of a preview window: of the one opened last, or of one
\* opened before it.  The focus goes with the window that held it.
ClosePreview ==
  /\ Handle
  /\ preview_open
  /\ \/ /\ current_preview_window = "exists"
        /\ current_preview_window' = "destroyed"
        /\ others' = others
     \/ /\ others > 0
        /\ others' = others - 1
        /\ current_preview_window' = current_preview_window
  /\ preview_open' = (current_preview_window' = "exists" \/ others' > 0)
  /\ focus' \in IF focus \in PreviewEntries
                THEN (IF preview_open' THEN {focus, "none"} ELSE {"none"})
                ELSE {focus}
  /\ event' = "close"
  /\ UNCHANGED <<tkvars, current_ascii_art, settled, good>>

(***************************************************************************)
(* The controls of the preview window.  They exist while it is open.       *)
(***************************************************************************)
\* <<ComboboxSelected>> of the preview's combobox.
PreviewSelectCharSet ==
  /\ Handle
  /\ preview_open
  /\ \E name \in RampChoices : char_set' = name
  /\ event' = "preview char_set"
  /\ UNCHANGED <<image_path, width_scale, height_scale, invert_colors, brightness,
                 crop_enabled, crops, preview_open, focus, direct, good>>
  /\ update_preview_from_controls

\* The preview's Invert Colors checkbutton.
PreviewToggleInvert ==
  /\ Handle
  /\ preview_open
  /\ invert_colors' = ~invert_colors
  /\ event' = "preview invert_colors"
  /\ UNCHANGED <<image_path, width_scale, height_scale, char_set, brightness,
                 crop_enabled, crops, preview_open, focus, direct, good>>
  /\ update_preview_from_controls

\* The brightness slider, dragged with the mouse and released.
SlideBrightness ==
  /\ Handle
  /\ preview_open
  /\ \E position \in BrightnessSlides : brightness' = position
  /\ good' = [good EXCEPT !.brightness = brightness']
  /\ event' = "brightness_slider"
  /\ UNCHANGED <<image_path, width_scale, height_scale, char_set, invert_colors,
                 crop_enabled, crops, preview_open, focus, direct>>
  /\ update_preview_from_controls

\* The pointer moved over the brightness slider, no button held: <Motion>.
HoverBrightness ==
  /\ Handle
  /\ preview_open
  /\ event' = "brightness_slider motion"
  /\ UNCHANGED <<tkvars, preview_open, focus, direct, good>>
  /\ update_preview_from_controls

TypeBrightness ==
  /\ Handle
  /\ preview_open
  /\ focus \in {"none", "brightness"}
  /\ \E text \in BrightnessTexts : brightness' = text
  /\ focus' = "brightness"
  /\ event' = "type"
  /\ UNCHANGED <<image_path, width_scale, height_scale, char_set, invert_colors,
                 crop_enabled, crops, preview_open, current_ascii_art, direct, good>>

on_brightness_entry_change ==
  /\ Handle
  /\ preview_open
  /\ focus = "brightness"
  /\ focus' = "none"
  /\ UNCHANGED <<image_path, width_scale, height_scale, char_set, invert_colors,
                 crop_enabled, crops, preview_open, direct>>
  /\ IF ~Parses(brightness)
       THEN /\ event' = "on_brightness_entry_change: TclError"
            /\ UNCHANGED <<brightness, good, current_ascii_art>>
       ELSE IF BrightnessInRange(brightness)
         THEN /\ event' = "on_brightness_entry_change: accepted"
              /\ good' = [good EXCEPT !.brightness = brightness]
              /\ UNCHANGED brightness
              /\ update_preview_from_controls
         ELSE /\ event' = "on_brightness_entry_change: rejected"
              /\ brightness' = FloatV(0)
              /\ UNCHANGED <<good, current_ascii_art>>

\* The Enable Cropping checkbutton.
ToggleCrop ==
  /\ Handle
  /\ preview_open
  /\ crop_enabled' = ~crop_enabled
  /\ event' = "crop_enabled"
  /\ UNCHANGED <<image_path, width_scale, height_scale, char_set, invert_colors,
                 brightness, crops, preview_open, focus, direct, good>>
  /\ update_preview_from_controls

SetCrop(box) ==
  /\ crop_start_x' = FloatV(box[1] * Milli)
  /\ crop_start_y' = FloatV(box[2] * Milli)
  /\ crop_end_x' = FloatV(box[3] * Milli)
  /\ crop_end_y' = FloatV(box[4] * Milli)

\* The four bounds as good keeps them.
GoodCrop(sx, sy, ex, ey) ==
  [good EXCEPT !.crop_start_x = sx, !.crop_start_y = sy, !.crop_end_x = ex,
               !.crop_end_y = ey]

\* The preset buttons stand in the preview window, so the attributes
\* current_preview_text and current_status_label exist when one is pressed.
\* They are the widgets of the window opened last: when that window is
\* destroyed, status_label.config raises TclError before the conversion.
set_crop_preset ==
  /\ Handle
  /\ preview_open
  /\ \E preset_type \in DOMAIN CropPresets : SetCrop(CropPresets[preset_type])
  /\ good' = GoodCrop(crop_start_x', crop_start_y', crop_end_x', crop_end_y')
  /\ UNCHANGED <<image_path, width_scale, height_scale, char_set, invert_colors,
                 brightness, crop_enabled, preview_open, focus, direct>>
  /\ IF ~crop_enabled
       THEN /\ event' = "set_crop_preset"
            /\ UNCHANGED current_ascii_art
       ELSE IF current_preview_window = "exists"
         THEN /\ event' = "set_crop_preset: cropping"
              /\ update_preview_from_controls
         ELSE /\ event' = "set_crop_preset: TclError"
              /\ UNCHANGED current_ascii_art

TypeCrop ==
  /\ Handle
  /\ preview_open
  /\ \E field \in CropFields, text \in CropTexts :
       /\ focus \in {"none", field}
       /\ focus' = field
       /\ crop_start_x' = IF field = "crop_start_x" THEN text ELSE crop_start_x
       /\ crop_start_y' = IF field = "crop_start_y" THEN text ELSE crop_start_y
       /\ crop_end_x' = IF field = "crop_end_x" THEN text ELSE crop_end_x
       /\ crop_end_y' = IF field = "crop_end_y" THEN text ELSE crop_end_y
  /\ event' = "type"
  /\ UNCHANGED <<image_path, width_scale, height_scale, char_set, invert_colors,
                 brightness, crop_enabled, preview_open, current_ascii_art, direct,
                 good>>

reset_crop_to_default == SetCrop(<<0, 0, 100, 100>>)

on_crop_entry_change ==
  /\ Handle
  /\ preview_open
  /\ focus \in CropFields
  /\ focus' = "none"
  /\ UNCHANGED <<image_path, width_scale, height_scale, char_set, invert_colors,
                 brightness, crop_enabled, preview_open, direct>>
  /\ IF \E value \in {crop_start_x, crop_start_y, crop_end_x, crop_end_y} : ~Parses(value)
       THEN /\ event' = "on_crop_entry_change: TclError"
            /\ UNCHANGED <<crops, good, current_ascii_art>>
       ELSE IF (\E value \in {crop_start_x, crop_start_y, crop_end_x, crop_end_y} : ~CropInRange(value))
                 \/ crop_start_x.v >= crop_end_x.v \/ crop_start_y.v >= crop_end_y.v
         THEN /\ event' = "on_crop_entry_change: rejected"
              /\ reset_crop_to_default
              /\ UNCHANGED <<good, current_ascii_art>>
         ELSE /\ event' = IF crop_enabled THEN "on_crop_entry_change: accepted, cropping"
                                          ELSE "on_crop_entry_change: accepted"
              /\ good' = GoodCrop(crop_start_x, crop_start_y, crop_end_x, crop_end_y)
              /\ UNCHANGED crops
              /\ IF crop_enabled THEN update_preview_from_controls
                                 ELSE UNCHANGED current_ascii_art

(***************************************************************************)
(* Ctrl + mouse wheel.  Every open_preview_window binds it on the preview  *)
(* text, on the preview window and on the main window.                     *)
(***************************************************************************)
MinFontSize == 2
MaxFontSize == 20

\* event.delta of a notch up and of a notch down.
WheelDeltas == {120, -120}

\* The status line formats brightness, and the crop bounds when cropping is
\* enabled: a variable whose text is no number makes get() raise TclError.
StatusUnreadable ==
  \/ ~Parses(brightness)
  \/ crop_enabled /\ \E value \in {crop_start_x, crop_start_y, crop_end_x, crop_end_y} :
                        ~Parses(value)

\* A changed clamp: the lower end is 1.
NewFontSizeFromOne(size, delta) ==
  Max2(1, Min2(MaxFontSize, size + (IF delta > 0 THEN 1 ELSE -1)))

\* max(2, min(20, current_font_size + font_change))
NewFontSize(size, delta) ==
  Max2(MinFontSize, Min2(MaxFontSize, size + (IF delta > 0 THEN 1 ELSE -1)))

\* The wheel is followed as long as it turns: font_size stays in a finite
\* range, so the turns are not counted among the events.
scale_with_mouse ==
  /\ current_preview_window # "unset"
  /\ UNCHANGED <<tkvars, preview_open, current_ascii_art, focus, good, call, ret,
                 numpy_version, first, export_font_size, canvas, handed, windows,
                 handled>>
  /\ \E delta \in WheelDeltas :
       IF current_preview_window # "exists"
       THEN /\ event' = "scale_with_mouse: no preview"
            /\ UNCHANGED font_size
       ELSE /\ font_size' = NewFontSize(font_size, delta)
            /\ event' = IF StatusUnreadable
                           THEN (IF delta > 0 THEN "scale_with_mouse up: TclError"
                                              ELSE "scale_with_mouse down: TclError")
                           ELSE (IF delta > 0 THEN "scale_with_mouse up"
                                              ELSE "scale_with_mouse down")

\* Sessions with the wheel: windows are opened and closed, an image is
\* chosen, the brightness entry is typed into, cropping is switched.
NextWheel ==
  \/ browse_image
  \/ open_preview_window
  \/ ClosePreview
  \/ TypeBrightness
  \/ ToggleCrop
  \/ scale_with_mouse

SpecWheel == Init /\ [][NextWheel]_vars

(***************************************************************************)
(* Where the art goes: the export dialog, the clipboard, a file.           *)
(***************************************************************************)
HandOn(to, art) == handed' = [to |-> to, art |-> art]

\* "not ascii_art or ascii_art.startswith('Please select')"
NoArt(art) == art.kind = "select" \/ (art.kind = "ascii" /\ art.text = <<>>)

\* The Export as Image button of the main window: it converts anew.
export_as_image ==
  /\ Handle
  /\ UNCHANGED <<tkvars, preview_open, current_ascii_art, focus, good, call, ret,
                 numpy_version, first, font_size, export_font_size, canvas, windows>>
  /\ IF image_path = EmptyPath
       THEN /\ event' = "export_as_image: no path"
            /\ UNCHANGED handed
       ELSE LET ascii_art == image_to_ascii(Self, Args(image_path), numpy_version)
            IN  IF NoArt(ascii_art)
                THEN /\ event' = "export_as_image: refused"
                     /\ UNCHANGED handed
                ELSE /\ event' = "export_as_image"
                     /\ HandOn("export dialog", ascii_art)

\* The buttons of the preview window: current_ascii_art exists, and is no
\* empty text, once the window has been opened.
export_as_image_from_preview ==
  /\ Handle
  /\ preview_open
  /\ UNCHANGED <<tkvars, preview_open, current_ascii_art, focus, good, call, ret,
                 numpy_version, first, font_size, export_font_size, canvas, windows>>
  /\ IF current_ascii_art = Unset
          \/ (current_ascii_art.kind = "ascii" /\ current_ascii_art.text = <<>>)
       THEN /\ event' = "export_as_image_from_preview: refused"
            /\ UNCHANGED handed
       ELSE /\ event' = "export_as_image_from_preview"
            /\ HandOn("export dialog", current_ascii_art)

copy_to_clipboard_dynamic ==
  /\ Handle
  /\ preview_open
  /\ UNCHANGED <<tkvars, preview_open, current_ascii_art, focus, good, call, ret,
                 numpy_version, first, font_size, export_font_size, canvas, windows>>
  /\ event' = "copy_to_clipboard_dynamic"
  /\ HandOn("clipboard", current_ascii_art)

\* The file dialog gives a name, or "" when it is cancelled.
save_ascii_from_preview_dynamic ==
  /\ Handle
  /\ preview_open
  /\ UNCHANGED <<tkvars, preview_open, current_ascii_art, focus, good, call, ret,
                 numpy_version, first, font_size, export_font_size, canvas, windows>>
  /\ \E filename \in {"", "art.txt"} :
       IF filename = ""
       THEN /\ event' = "save_ascii_from_preview_dynamic: cancelled"
            /\ UNCHANGED handed
       ELSE /\ event' = "save_ascii_from_preview_dynamic"
            /\ HandOn("file", current_ascii_art)

Next ==
  \/ browse_image
  \/ TypeWidth
  \/ TypeHeight
  \/ SlideWidth
  \/ SlideHeight
  \/ on_width_entry_change
  \/ on_height_entry_change
  \/ set_aspect_ratio
  \/ SelectCharSet
  \/ ToggleInvert
  \/ open_preview_window
  \/ ClosePreview
  \/ PreviewSelectCharSet
  \/ PreviewToggleInvert
  \/ SlideBrightness
  \/ HoverBrightness
  \/ TypeBrightness
  \/ on_brightness_entry_change
  \/ ToggleCrop
  \/ set_crop_preset
  \/ TypeCrop
  \/ on_crop_entry_change
  \/ export_as_image
  \/ export_as_image_from_preview
  \/ copy_to_clipboard_dynamic
  \/ save_ascii_from_preview_dynamic

Spec == Init /\ [][Next]_vars

\* The call, events of the windows, the call again.
NextRepeat ==
  \/ CallExplicit
  \/ CallAgain
  \/ browse_image
  \/ SelectCharSet
  \/ ToggleInvert
  \/ SlideWidth
  \/ SlideHeight
  \/ TypeWidth
  \/ open_preview_window
  \/ SlideBrightness
  \/ ToggleCrop
  \/ set_crop_preset

SpecRepeat == Init /\ [][NextRepeat]_vars


(***************************************************************************)
(* ascii_to_image(self, ascii_text, font_size, bg_color, text_color): the  *)
(* canvas it creates.  A text is the sequence of its characters.           *)
(***************************************************************************)
\* The ends of the lines of ascii_text.split('\n'): the newlines, and the
\* end of the text.
LineEnds(ascii_text) ==
  {k \in 1..(Len(ascii_text) + 1) : k = Len(ascii_text) + 1 \/ ascii_text[k] = "\n"}

\* len(line) of the line that ends at e.
LineLength(ascii_text, e) ==
  LET earlier == {k \in LineEnds(ascii_text) : k < e}
  IN  e - 1 - (IF earlier = {} THEN 0 ELSE CHOOSE k \in earlier : \A j \in earlier : j <= k)

\* max(len(line) for line in lines)
max_line_length(ascii_text) ==
  LET lengths == {LineLength(ascii_text, e) : e \in LineEnds(ascii_text)}
  IN  CHOOSE n \in lengths : \A j \in lengths : j <= n

line_height(size) == size + 2

\* A changed width: half of the product of length and font size.
img_width_of_product(length, size) == (length * size) \div 2

\* max_line_length * (font_size // 2)
img_width(length, size) == length * (size \div 2)

img_height(ascii_text, size) ==
  Cardinality(LineEnds(ascii_text)) * line_height(size)

\* size_arg is the argument font_size, None or a number.
ascii_to_image(self_export_font_size, ascii_text, size_arg, bg_color) ==
  LET size == IF size_arg.t = "None" THEN self_export_font_size
              ELSE size_arg.v \div Milli
  IN  [made |-> TRUE, ascii_text |-> ascii_text, font_size |-> size,
       mode |-> IF bg_color = "transparent" THEN "RGBA" ELSE "RGB",
       width |-> img_width(max_line_length(ascii_text), size),
       height |-> img_height(ascii_text, size)]

\* The ends of the font size slider of the export dialog.
MinFont == 8
MaxFont == 48

\* Texts handed to ascii_to_image: one glyph, two rows of three, rows of
\* unequal length, a text that ends in a newline, and the empty text.
ExportTexts ==
  {<<"@">>, <<".", ":", "-", "\n", "=", "+", "*">>,
   <<"#", "\n", "%", "@", "#", "%", "\n", "@">>, <<"#", "\n">>, <<>>}

\* The font size slider of the export dialog.
SlideExportFontSize ==
  /\ \E size \in MinFont..MaxFont : export_font_size' = size
  /\ event' = "export_font_size"
  /\ UNCHANGED <<tkvars, preview_open, current_ascii_art, focus, call, ret,
                 numpy_version, good, handled, first, font_size, canvas, handed, windows>>

CallAsciiToImage ==
  /\ \E ascii_text \in ExportTexts,
        size_arg \in {NoneV, IntV(9), IntV(MaxFont)},
        bg_color \in {"black", "transparent"} :
       canvas' = ascii_to_image(export_font_size, ascii_text, size_arg, bg_color)
  /\ event' = "ascii_to_image"
  /\ UNCHANGED <<tkvars, preview_open, current_ascii_art, focus, call, ret,
                 numpy_version, good, handled, first, font_size, export_font_size,
                 handed, windows>>

NextExport ==
  \/ SlideExportFontSize
  \/ CallAsciiToImage

SpecExport == Init /\ [][NextExport]_vars


(***************************************************************************)
(* Properties of image_to_ascii, checked on the direct calls (SpecCall).   *)
(***************************************************************************)
Range(f) == {f[i] : i \in DOMAIN f}

\* Where the character of pixel k (row-major, from 1) stands in a text whose
\* rows are w characters long.
TextPos(k, w) == ((k - 1) \div w) * (w + 1) + ((k - 1) % w) + 1

Newlines(text) == {k \in 1..Len(text) : text[k] = "\n"}
NumRows(text) == Cardinality(Newlines(text)) + 1

\* Every row of the text is w characters long.
RowsOfLength(text, w) ==
  /\ \A k \in Newlines(text) : k % (w + 1) = 0
  /\ (Len(text) + 1) % (w + 1) = 0
  /\ \A k \in 1..Len(text) : k % (w + 1) = 0 => text[k] = "\n"

Succeeded == ret.kind = "ascii"
Inverting == Truth(call.invert, invert_colors)

\* floor(g * (n - 1) / 255)
FloorIndex(g, n) == (g * (n - 1)) \div MaxLum

\* C1: without inversion every sampled luminance g is shown as
\* ramp[floor(g*(N-1)/255)], an index in 0..N-1 (0 for g = 0, N-1 for
\* g = 255); luminance 128 on the standard ramp is index 4, '='.
C1_FloorQuantization ==
  (Succeeded /\ ~Inverting) =>
    LET ramp == RampOf(Self, call)
        n == Len(ramp)
        img == Resized(Self, call)
    IN  \A k \in 1..Len(img.px) :
          LET g == img.px[k]
              i == FloorIndex(g, n)
              ch == ret.text[TextPos(k, img.width)]
          IN  /\ g \in 0..MaxLum
              /\ i \in 0..(n - 1)
              /\ (g = 0 => i = 0)
              /\ (g = MaxLum => i = n - 1)
              /\ ch = ramp[i + 1]
              /\ (g = 128 /\ ramp = standard) => (i = 4 /\ ch = "=")

\* A sweep over every luminance on the longest ramp, and the mid-gray scenario.
C1_Witness ==
  /\ Succeeded /\ ~Inverting
  /\ call.image_path = SweepImage
  /\ call.char_set = Str("detailed")
  /\ brightness.v = 0
  /\ Range(Resized(Self, call).px) = 0..MaxLum
  /\ ret.text[TextPos(129, SweepSide)] = "x"

\* The ramp a char_set argument selects as the claim has it: the preset of
\* that name, or the characters of an explicit sequence.
SelectedRamp ==
  IF call.char_set.t = "None" THEN char_sets[char_set]
  ELSE IF call.char_set.s \in PresetNames THEN char_sets[call.char_set.s]
  ELSE ExplicitChars[call.char_set.s]

\* The ramp the call uses: the preset of that name, and the standard ramp
\* for any other string.
UsedRamp ==
  IF call.char_set.t = "None" THEN char_sets[char_set]
  ELSE IF call.char_set.s \in PresetNames THEN char_sets[call.char_set.s]
  ELSE standard

\* C2 (as claimed): every character of a successful output, newlines apart,
\* is a member of the ramp selected through char_set, by preset name or as
\* an explicit character sequence.
C2_ClosureExplicit ==
  Succeeded => \A k \in 1..Len(ret.text) :
                 ret.text[k] = "\n" \/ ret.text[k] \in Range(SelectedRamp)

\* C2 (amended): every character of a successful output, newlines apart, is
\* a member of the preset char_set names, and of the standard ramp when
\* char_set is any other string (an explicit sequence is not used as a ramp).
C2_ClosurePreset ==
  Succeeded => \A k \in 1..Len(ret.text) :
                 ret.text[k] = "\n" \/ ret.text[k] \in Range(UsedRamp)

\* A call with the explicit sequence "ab" whose output holds '@'.
C2_Witness ==
  /\ Succeeded
  /\ call.char_set = Str("ab")
  /\ "@" \in Range(ret.text)

\* Python's round(n/d): to the nearest integer, halves to the even one.
Round(n, d) ==
  LET q == n \div d
      r == n % d
  IN  IF 2 * r < d THEN q
      ELSE IF 2 * r > d THEN q + 1
      ELSE IF q % 2 = 0 THEN q ELSE q + 1

\* C3 (as claimed): rows = round(cropped_height * height_scale/100) and row
\* length = round(cropped_width * width_scale/100), each at least 1.
C3_RoundedSize ==
  Succeeded =>
    LET img == Cropped(Self, call)
    IN  /\ NumRows(ret.text) = Max2(1, Round(img.height * HeightScaleOf(Self, call).v, 100 * Milli))
        /\ RowsOfLength(ret.text, Max2(1, Round(img.width * WidthScaleOf(Self, call).v, 100 * Milli)))

\* C3 (amended): rows = floor(cropped_height * height_scale/100) and row
\* length = floor(cropped_width * width_scale/100), each at least 1: the
\* scaled size is truncated, never rounded up (height 10 at scale 75: 7).
C3_TruncatedSize ==
  Succeeded =>
    LET img == Cropped(Self, call)
    IN  /\ NumRows(ret.text) = Max2(1, (img.height * HeightScaleOf(Self, call).v) \div (100 * Milli))
        /\ RowsOfLength(ret.text, Max2(1, (img.width * WidthScaleOf(Self, call).v) \div (100 * Milli)))

\* Height 10 at scale 75 (7.5 rows before truncation) gives 7 rows.
C3_Witness ==
  /\ Succeeded
  /\ call.image_path = GrayImage
  /\ ~CropEnabled(Self, call)
  /\ call.height_scale = IntV(75)
  /\ call.width_scale = IntV(150)
  /\ NumRows(ret.text) = 7
  /\ RowsOfLength(ret.text, 15)

\* The index shown for luminance g, the inversion of the call applied.
ShownIndex(g, n) == IF Inverting THEN n - 1 - FloorIndex(g, n) ELSE FloorIndex(g, n)

\* C4: an offset b in -100..100, a float of the Tk variable or an integer
\* argument, makes every luminance g min(255, max(0, g + b)) (what
\* astype('uint8') keeps of it): no sum wraps modulo 256 and no offset makes
\* the call fail.
C4_BrightnessClamps ==
  (/\ ret # Unset
   /\ IsImage(call.image_path)
   /\ BrightnessOf(Self, call).t \in {"int", "float"}
   /\ BrightnessOf(Self, call).v \in (-100 * Milli)..(100 * Milli)
   /\ ~(ret.kind = "error" /\ ret.cause # "OverflowError"))
  => /\ Succeeded
     /\ LET src == Cropped(Self, call)
            ramp == RampOf(Self, call)
            adjusted(g) ==
              Clip(g * Milli + BrightnessOf(Self, call).v, 0, MaxLum * Milli) \div Milli
        IN  (NewWidth(Self, call) = src.width /\ NewHeight(Self, call) = src.height)
            => \A k \in 1..Len(src.px) :
                 ret.text[TextPos(k, src.width)]
                   = ramp[ShownIndex(adjusted(src.px[k]), Len(ramp)) + 1]

\* C5: with cropping on, each percentage p becomes floor(dimension*p/100)
\* and is clamped so that 0 <= start_x < end_x <= width and
\* 0 <= start_y < end_y <= height for every four percentages; the region
\* kept is that box of the decoded image; bounds (10,10,90,90) on a 100x100
\* source give the box (10,10)-(90,90), 80x80.
C5_CropBox ==
  (/\ ret # Unset
   /\ IsImage(call.image_path)
   /\ CropEnabled(Self, call)
   /\ ~CropUnreadable(Self, call))
  => LET box == BoxOf(Self, call)
         w == call.image_path.w
         h == call.image_path.h
         c == CropArgs(Self, call)
         fl(dim, p) == (dim * p.v) \div (100 * Milli)
         region == Cropped(Self, call)
         source == OpenL(call.image_path)
     IN  /\ 0 <= box[1] /\ box[1] < box[3] /\ box[3] <= w
         /\ 0 <= box[2] /\ box[2] < box[4] /\ box[4] <= h
         /\ box[1] = Max2(0, Min2(fl(w, c[1]), w - 1))
         /\ box[2] = Max2(0, Min2(fl(h, c[2]), h - 1))
         /\ box[3] = Max2(box[1] + 1, Min2(fl(w, c[3]), w))
         /\ box[4] = Max2(box[2] + 1, Min2(fl(h, c[4]), h))
         /\ region.width = box[3] - box[1]
         /\ region.height = box[4] - box[2]
         /\ Len(region.px) = region.width * region.height
         /\ \A k \in 1..Len(region.px) :
              region.px[k] = source.px[(box[2] + ((k - 1) \div region.width)) * w
                                         + box[1] + ((k - 1) % region.width) + 1]
         /\ (w = 100 /\ h = 100 /\ c = <<IntV(10), IntV(10), IntV(90), IntV(90)>>)
              => (box = <<10, 10, 90, 90>> /\ region.width = 80 /\ region.height = 80)
         /\ (Succeeded /\ WidthScaleOf(Self, call).v = 100 * Milli
                       /\ HeightScaleOf(Self, call).v = 100 * Milli)
              => (NumRows(ret.text) = box[4] - box[2]
                  /\ RowsOfLength(ret.text, box[3] - box[1]))

\* Reversed, out-of-range bounds on the 4x3 image, a one-pixel region kept.
C5_Witness ==
  /\ Succeeded
  /\ call.image_path = PatternImage
  /\ CropArgs(Self, call) = <<IntV(130), FloatV(90 * Milli), FloatV(-20 * Milli), IntV(10)>>
  /\ BoxOf(Self, call) = <<3, 2, 4, 3>>
  /\ Len(ret.text) = 1

\* C6: no exception leaves image_to_ascii: a path that does not exist (the
\* empty string and None included) gives the 'Please select a valid image
\* file.' result, and every failure after that gives an 'Error converting
\* image: ' result carrying its cause.
C6_NoExceptionEscapes ==
  ret # Unset =>
    /\ ret.kind # "raised"
    /\ call.image_path.file \in {"None", "empty", "missing"} => ret.kind = "select"
    /\ call.image_path.file = "text" => (ret.kind = "error" /\ ret.cause # "")
    /\ (IsImage(call.image_path) /\ call.char_set.t = "None" /\ char_set \notin PresetNames)
         => (ret.kind = "error" /\ ret.cause # "")

\* What invert=False emits for the same call.
PlainCall == [call EXCEPT !.invert = "False"]

\* C7: with inversion the character at every position is ramp[(N-1) - i],
\* ramp[i] being what invert=False emits there, the rows unchanged in number
\* and length; the 128-gray image on the standard ramp gives '+' throughout;
\* the first pixel is inverted too when invert comes from the Tk variable.
C7_InversionReversesIndex ==
  (Succeeded /\ Inverting) =>
    LET ramp == RampOf(Self, call)
        n == Len(ramp)
        plain == image_to_ascii(Self, PlainCall, numpy_version)
        i == IndexesOf(Self, PlainCall)
        w == NewWidth(Self, call)
    IN  /\ plain.kind = "ascii"
        /\ Len(plain.text) = Len(ret.text)
        /\ Newlines(plain.text) = Newlines(ret.text)
        /\ \A k \in 1..Len(i) :
             /\ plain.text[TextPos(k, w)] = ramp[i[k] + 1]
             /\ ret.text[TextPos(k, w)] = ramp[(n - 1) - i[k] + 1]
        /\ (call.image_path = GrayImage /\ ramp = standard /\ BrightnessOf(Self, call).v = 0)
             => \A k \in 1..Len(ret.text) : ret.text[k] \in {"+", "\n"}

\* The mid-gray scenario inverted through the Tk variable: '+' from the first
\* character on.
C7_Witness ==
  /\ Succeeded
  /\ call.invert = "None" /\ invert_colors
  /\ call.image_path = GrayImage
  /\ BrightnessOf(Self, call).v = 0
  /\ ret.text[1] = "+"
  /\ NumRows(ret.text) = 10

(***************************************************************************)
(* The entries and their handlers, the scales, and the stored art.         *)
(***************************************************************************)
ScaleFields == {"width_scale", "height_scale"}

\* The parameters the handler named in an event validates.
Validated(e) ==
  IF e \in {"on_width_entry_change: rejected", "on_width_entry_change: TclError"}
    THEN {"width_scale"}
  ELSE IF e \in {"on_height_entry_change: rejected", "on_height_entry_change: TclError"}
    THEN {"height_scale"}
  ELSE IF e \in {"on_brightness_entry_change: rejected",
                 "on_brightness_entry_change: TclError"}
    THEN {"brightness"}
  ELSE IF e \in {"on_crop_entry_change: rejected", "on_crop_entry_change: TclError"}
    THEN CropFields
  ELSE {}

\* C8: when a handler finds its parameter out of range or unparsable, the
\* parameter is given back the value it held before the bad edit (the last
\* value that was good) and every other parameter is left as it was.
C8_RestoresPriorValue ==
  [][\A f \in DOMAIN Params :
       Validated(event') # {} =>
         Params'[f] = IF f \in Validated(event') THEN good[f] ELSE Params[f]]_vars

\* 0.001 to 1000 percent, and 0.001 to 100 percent.
InClaimedScales(value) == value.v >= 1 /\ value.v <= 1000000
InHandledScales(value) == value.v >= 1 /\ value.v <= 100000

\* The handlers of the two scale entries have run on a number.
ScaleHandled(f, e) ==
  \/ f = "width_scale" /\ e \in {"on_width_entry_change: accepted",
                                  "on_width_entry_change: rejected"}
  \/ f = "height_scale" /\ e \in {"on_height_entry_change: accepted",
                                   "on_height_entry_change: rejected"}

\* C9 (as claimed): the handlers of the scale entries keep every value from
\* 0.001 to 1000 percent as entered (150 and 1000 included) and reject only
\* values outside; set_aspect_ratio does not move a requested value inside
\* that range.
C9_ScalesTo1000 ==
  [][\A f \in ScaleFields :
       /\ ScaleHandled(f, event') =>
            (InClaimedScales(Params[f]) <=> Params'[f] = Params[f])
       /\ (event' = "set_aspect_ratio" /\ InClaimedScales(call'[f])) =>
            Params'[f].v = call'[f].v]_vars

\* C9 (amended): the handlers of the scale entries keep every value from
\* 0.001 to 100 percent as entered and reject only values outside, 150
\* included, which they replace by 100; set_aspect_ratio does not move a
\* requested value inside 0.001..100 and moves any other to the nearer end
\* of that range.
C9_ScalesTo100 ==
  [][\A f \in ScaleFields :
       /\ ScaleHandled(f, event') =>
            /\ InHandledScales(Params[f]) <=> Params'[f] = Params[f]
            /\ InHandledScales(Params[f]) <=> event' \notin {"on_width_entry_change: rejected",
                                                            "on_height_entry_change: rejected"}
            /\ ~InHandledScales(Params[f]) => Params'[f] = FloatV(100000)
       /\ event' = "set_aspect_ratio" =>
            Params'[f].v = IF InHandledScales(call'[f]) THEN call'[f].v
                           ELSE IF call'[f].v < 1 THEN 1 ELSE 100000]_vars

\* The width entry was given 150 and its handler has put 100 in its place.
C9_Witness ==
  /\ event = "on_width_entry_change: rejected"
  /\ width_scale = FloatV(100000)
  /\ handled = 2

\* The events after which the windows regenerate the art, and the events
\* that change a parameter without it.
Refreshing ==
  {"preview char_set", "preview invert_colors", "brightness_slider",
   "brightness_slider motion",
   "on_brightness_entry_change: accepted", "crop_enabled",
   "set_crop_preset: cropping", "on_crop_entry_change: accepted, cropping"}
NotRefreshing ==
  {"width_slider", "height_slider", "on_width_entry_change: accepted",
   "on_width_entry_change: rejected", "on_height_entry_change: accepted",
   "on_height_entry_change: rejected", "set_aspect_ratio", "browse_image",
   "main char_set", "main invert_colors", "set_crop_preset",
   "on_crop_entry_change: accepted", "on_crop_entry_change: rejected",
   "on_brightness_entry_change: rejected"}

\* The stored art is what image_to_ascii gives on the image and the
\* parameters of this state.
Fresh == current_ascii_art = image_to_ascii(Self, Args(image_path), numpy_version)

\* C10 (as claimed): with a preview open, after any event that changes a
\* parameter (ramp, invert, brightness, crop enable, bounds or preset, a
\* width or height edit, an aspect-ratio button, another image) the stored
\* art equals image_to_ascii on the current image and parameters.
C10_NeverStale ==
  (preview_open /\ event \in (Refreshing \cup NotRefreshing)
     /\ event \notin {"on_width_entry_change: rejected", "on_height_entry_change: rejected",
                      "on_crop_entry_change: rejected",
                      "on_brightness_entry_change: rejected"}) => Fresh

\* C10 (amended): with a preview open, after a ramp selection or an invert
\* toggle in the preview window, a move of the brightness slider or an
\* accepted brightness entry, a crop enable toggle, an accepted crop edit
\* while cropping is enabled, and a crop preset while cropping is enabled
\* and the window opened last exists, the stored art equals image_to_ascii
\* on the current image and parameters.
C10_FreshAfterPreviewControls ==
  (preview_open /\ event \in Refreshing) => Fresh

\* The invert checkbutton of the preview has turned the art of the pattern
\* image around.
C10_Witness ==
  /\ preview_open
  /\ event = "preview invert_colors"
  /\ invert_colors
  /\ image_path = PatternImage
  /\ Fresh
  /\ current_ascii_art.kind = "ascii"

(***************************************************************************)
(* The shape of the text.                                                  *)
(***************************************************************************)
\* C11: a successful result is new_height rows of new_width glyphs each, the
\* glyphs of the resized image row by row, joined by single newlines with
\* none before the first row or after the last: new_height - 1 newlines,
\* length new_height * new_width + new_height - 1.
C11_RowsJoined ==
  Succeeded =>
    LET w == NewWidth(Self, call)
        h == NewHeight(Self, call)
        idx == IndexesOf(Self, call)
        ramp == RampOf(Self, call)
    IN  /\ Len(ret.text) = h * w + h - 1
        /\ Cardinality(Newlines(ret.text)) = h - 1
        /\ NumRows(ret.text) = h
        /\ RowsOfLength(ret.text, w)
        /\ ret.text[1] # "\n" /\ ret.text[Len(ret.text)] # "\n"
        /\ Len(idx) = h * w
        /\ \A k \in 1..(h * w) :
             /\ ret.text[TextPos(k, w)] = ramp[idx[k] + 1]
             /\ ret.text[TextPos(k, w)] # "\n"

\* The 10x10 image at scales 50 and 75: 7 rows of 5 glyphs, 6 newlines.
C11_Witness ==
  /\ Succeeded
  /\ call.image_path = GrayImage
  /\ call.width_scale = IntV(50) /\ call.height_scale = IntV(75)
  /\ ~CropEnabled(Self, call)
  /\ Len(ret.text) = 41
  /\ Cardinality(Newlines(ret.text)) = 6

\* C12: for every image of at least 1x1, every crop setting and every
\* positive pair of scales, 0.001 included, the resize target is at least
\* 1x1: a successful result is not the empty string and has no empty row.
C12_NeverEmpty ==
  Succeeded =>
    /\ NewWidth(Self, call) >= 1 /\ NewHeight(Self, call) >= 1
    /\ Resized(Self, call).width >= 1 /\ Resized(Self, call).height >= 1
    /\ Len(ret.text) >= 1
    /\ ret.text[1] # "\n" /\ ret.text[Len(ret.text)] # "\n"
    /\ \A k \in 1..(Len(ret.text) - 1) : ~(ret.text[k] = "\n" /\ ret.text[k + 1] = "\n")

\* Both scales 0.001 on the cropped 10x10 image: one glyph.
C12_Witness ==
  /\ Succeeded
  /\ call.image_path = GrayImage
  /\ CropEnabled(Self, call)
  /\ call.width_scale = FloatV(1) /\ call.height_scale = FloatV(1)
  /\ (Cropped(Self, call).width * 1) \div (100 * Milli) = 0
  /\ Len(ret.text) = 1

(***************************************************************************)
(* The call as a function of its arguments.                                *)
(***************************************************************************)
\* C13: with every parameter passed, two calls on the same image with the
\* same arguments return the same string, whatever the Tk variables hold
\* and whatever happened between the two.
C13_SameResult ==
  first # Unset => ret = first

\* The second call made after the width slider was dragged to 0.001, the
\* invert box ticked and the ramp "simple" picked.
C13_Witness ==
  /\ first # Unset
  /\ ret.kind = "ascii"
  /\ call.image_path = PatternImage
  /\ call.crop_enabled = "True"
  /\ width_scale = FloatV(1)
  /\ invert_colors
  /\ char_set = "simple"

\* C14: a call of image_to_ascii, successful or ending in an error result,
\* leaves every parameter variable, image_path, font_size and the stored
\* art as they were (the table char_sets is assigned once, in __init__).
C14_CallChangesNothing ==
  [][event' \in {"image_to_ascii", "image_to_ascii again"} =>
       /\ tkvars' = tkvars
       /\ font_size' = font_size
       /\ current_ascii_art' = current_ascii_art
       /\ preview_open' = preview_open]_vars

\* A call that ended in an error result, made while a preview holds its art
\* and the variables have been moved from their defaults.
C14_Witness ==
  /\ event = "image_to_ascii again"
  /\ ret.kind = "error"
  /\ current_ascii_art.kind = "ascii"
  /\ brightness = FloatV(-100 * Milli)
  /\ image_path = PatternImage

\* C15: on every preset ramp the index does not fall when the luminance
\* (after brightness, before inversion) rises, and with inversion it does
\* not rise: for sampled luminances a < b, index(a) <= index(b), and
\* index(a) >= index(b) when inverted.
C15_Monotonic ==
  Succeeded =>
    LET w == NewWidth(Self, call)
        px == Resized(Self, call).px
        lum == Range(px)
        n == Len(RampOf(Self, call))
        inv == Inverting
        index(g) == PixelIndex(g, n, inv)
    IN  /\ \A k \in 1..Len(px) : ret.text[TextPos(k, w)] = RampOf(Self, call)[index(px[k]) + 1]
        /\ \A a \in lum, b \in lum :
             a < b => IF inv THEN index(a) >= index(b) ELSE index(a) <= index(b)

\* The sweep over every luminance on the ramp "blocks", inverted: from the
\* last index at luminance 0 down to index 0 at luminance 255.
C15_Witness ==
  /\ Succeeded /\ Inverting
  /\ call.image_path = SweepImage
  /\ call.char_set = Str("blocks")
  /\ IndexesOf(Self, call)[1] = 4
  /\ IndexesOf(Self, call)[MaxLum + 1] = 0
  /\ Range(Resized(Self, call).px) = 0..MaxLum

(***************************************************************************)
(* The canvas of the exported image.                                       *)
(***************************************************************************)
\* The rows of a text and the length of its longest row, counted character
\* by character.
RowCount(text) == Cardinality({k \in 1..Len(text) : text[k] = "\n"}) + 1
RowSpan(text, i, j) == \A k \in i..j : text[k] # "\n"
LongestRow(text) ==
  LET fits(n) == \E i \in 1..(Len(text) + 1) : i + n - 1 <= Len(text) /\ RowSpan(text, i, i + n - 1)
  IN  CHOOSE n \in 0..Len(text) : fits(n) /\ \A m \in (n + 1)..Len(text) : ~fits(m)

\* C16 (as claimed): the canvas is floor(max_row_length * font_size / 2)
\* wide and row_count * (font_size + 2) high, for every text and every font
\* size from 8 to 48, the odd ones included.
C16_WidthOfProduct ==
  canvas.made =>
    /\ canvas.width = (LongestRow(canvas.ascii_text) * canvas.font_size) \div 2
    /\ canvas.height = RowCount(canvas.ascii_text) * (canvas.font_size + 2)

\* C16 (amended): the canvas is max_row_length * floor(font_size / 2) wide
\* (the half of the font size is rounded down before it is multiplied) and
\* row_count * (font_size + 2) high, for every text and every font size
\* from 8 to 48.
C16_WidthOfHalvedSize ==
  canvas.made =>
    /\ canvas.font_size \in 8..48
    /\ canvas.width = LongestRow(canvas.ascii_text) * (canvas.font_size \div 2)
    /\ canvas.height = RowCount(canvas.ascii_text) * (canvas.font_size + 2)

\* Font size 9 on rows of unequal length, the longest of 4 glyphs: 16 wide
\* (not 18), 33 high.
C16_Witness ==
  /\ canvas.made
  /\ canvas.font_size = 9
  /\ Len(canvas.ascii_text) = 8
  /\ canvas.width = 16
  /\ canvas.height = 33

(***************************************************************************)
(* What the windows hand to image_to_ascii.                                *)
(***************************************************************************)
\* The events whose handler calls image_to_ascii: it reads the variables as
\* the event leaves them.
Calling == Refreshing \cup {"open_preview_window"}

\* C17: every call the windows make of image_to_ascii sees a brightness in
\* [-100, 100], both scales in the valid range, and crop bounds in [0, 100]
\* with start < end.
C17_CallsSeeValidParameters ==
  event \in Calling =>
    /\ \A f \in DOMAIN Params : Params[f].t = "float"
    /\ brightness.v >= -100000 /\ brightness.v <= 100000
    /\ width_scale.v > 0 /\ width_scale.v <= 1000000
    /\ height_scale.v > 0 /\ height_scale.v <= 1000000
    /\ \A f \in CropFields : Params[f].v >= 0 /\ Params[f].v <= 100000
    /\ crop_start_x.v < crop_end_x.v
    /\ crop_start_y.v < crop_end_y.v

\* Calls that crop, brighten and resize, for the order of the stages.
NextStages ==
  \/ CallCrop
  \/ CallScale
  \/ CallLarge
  \/ SetBrightness

SpecStages == Init /\ [][NextStages]_vars

(***************************************************************************)
(* The order of the stages.                                                *)
(***************************************************************************)
\* The stages of the call, each built on the one before: the crop box from
\* the size of the decoded image, the brightness on the cropped pixels, the
\* target size from the cropped size.
StagedCrop ==
  LET original == OpenL(call.image_path)
      c == CropArgs(Self, call)
  IN  IF CropEnabled(Self, call)
      THEN Crop(original, CropBox(original.width, original.height,
                                  c[1].v, c[2].v, c[3].v, c[4].v))
      ELSE original

StagedBrightness ==
  IF BrightnessOf(Self, call).v # 0 THEN Brighten(StagedCrop, BrightnessOf(Self, call))
  ELSE StagedCrop

StagedWidth == NewDim(StagedCrop.width, WidthScaleOf(Self, call).v)
StagedHeight == NewDim(StagedCrop.height, HeightScaleOf(Self, call).v)
StagedResize == Resize(StagedBrightness, StagedWidth, StagedHeight)

CropHandled ==
  {"on_crop_entry_change: accepted", "on_crop_entry_change: accepted, cropping",
   "on_crop_entry_change: rejected", "on_crop_entry_change: TclError",
   "set_crop_preset", "set_crop_preset: cropping"}

\* C19: whenever on_crop_entry_change, set_crop_preset or
\* reset_crop_to_default has ended, the four crop percentages are numbers in
\* [0, 100] with crop_start_x < crop_end_x and crop_start_y < crop_end_y.
C19_CropBoundsValid ==
  event \in CropHandled =>
    /\ \A f \in CropFields : Parses(Params[f]) /\ CropInRange(Params[f])
    /\ crop_start_x.v < crop_end_x.v
    /\ crop_start_y.v < crop_end_y.v

(***************************************************************************)
(* The table of ramps.                                                     *)
(***************************************************************************)
\* The call names, as argument, a character set that is no preset.
OtherName == call.char_set.t = "str" /\ call.char_set.s \notin PresetNames

\* C20: the table has the six presets, each at least two characters long,
\* custom being the standard ramp; a char_set argument that is no preset
\* name gives what the standard ramp gives; the ramp a call quantizes with
\* is at least two characters long.
C20_RampTable ==
  /\ DOMAIN char_sets = {"standard", "detailed", "simple", "blocks", "dots", "custom"}
  /\ \A name \in DOMAIN char_sets : Len(char_sets[name]) >= 2
  /\ char_sets["custom"] = char_sets["standard"]
  /\ (ret # Unset /\ OtherName) =>
       /\ RampOf(Self, call) = char_sets["standard"]
       /\ ret = image_to_ascii(Self, [call EXCEPT !.char_set = Str("standard")],
                               numpy_version)
  /\ Succeeded =>
       /\ Len(RampOf(Self, call)) - 1 > 0
       /\ \A k \in 1..Len(ret.text) :
            ret.text[k] = "\n" \/ ret.text[k] \in Range(RampOf(Self, call))

\* A call with the argument "ab" on the sweep image: its output ends in '@',
\* the last character of the standard ramp, and starts with its first.
C20_Witness ==
  /\ Succeeded
  /\ call.image_path = SweepImage
  /\ call.char_set = Str("ab")
  /\ ret.text[Len(ret.text)] = "@"
  /\ ret.text[1] = " "

(***************************************************************************)
(* Error results and the art.                                              *)
(***************************************************************************)
\* 'Please select a valid image file.' or 'Error converting image: ...'
ErrorText(art) == art.kind \in {"select", "error"}

\* C21: an error result of image_to_ascii is never taken for art: after
\* open_preview_window or update_preview_from_controls has converted,
\* current_ascii_art holds no error text, and no error text is handed on to
\* the export dialog, the clipboard or a file.
C21_ErrorsAreNotArt ==
  /\ event \in Calling => ~ErrorText(current_ascii_art)
  /\ handed.to # "nothing" => ~ErrorText(handed.art)

(***************************************************************************)
(* The font size of the preview under the wheel.                           *)
(***************************************************************************)
WheelUp == event' \in {"scale_with_mouse up", "scale_with_mouse up: TclError"}
WheelDown == event' \in {"scale_with_mouse down", "scale_with_mouse down: TclError"}

\* One notch up and one notch down, kept within 2..20.
NotchUp == IF font_size + 1 > 20 THEN 20 ELSE font_size + 1
NotchDown == IF font_size - 1 < 2 THEN 2 ELSE font_size - 1

\* What every turn of the wheel leaves alone, and the range it keeps.
WheelKeeps ==
  /\ font_size' \in 2..20
  /\ font_size' - font_size \in {-1, 0, 1}
  /\ UNCHANGED <<tkvars, current_ascii_art>>

====
